---- MODULE Spec2Model ----
(***************************************************************************)
(* Model of the client-side caching and call-coalescing utilities of the   *)
(* quick-eat platform:                                                     *)
(*   - the two-tier cache (memoryCache + localStorage) of cacheUtils       *)
(*     (src/src/types/app.ts, second half),                                *)
(*   - memoize, useBatchRequests and useThrottle of optimizationUtils,     *)
(*   - useDebounce, debounce and useLocalStorageCache,                     *)
(*   - the location service (LocationService, useUserLocation),            *)
(*   - the two carts: useCart of cartService and useCartStore of api.ts.   *)
(* Time is the value Date.now() returns, in whole milliseconds.            *)
(***************************************************************************)
EXTENDS Integers, Sequences, FiniteSets, TLC

VARIABLES
    now,            \* Date.now()
    memoryCache,    \* cacheUtils: Map key -> {value, expiresAt}
    localStorage,   \* the durable store: storage key -> raw string
    cacheOp,        \* the cache call that returned last, with its outcome
    memoTable,      \* memoize: the Map `cache`, in insertion order
    memoRecency,    \* the keys of memoTable, least recently accessed first
    memoOp,         \* the memoized call that returned last, with its outcome
    queueRef,       \* useBatchRequests: queueRef.current
    batchTimeoutRef,\* useBatchRequests: timeoutRef.current (NoTimer = null)
    batchTimers,    \* the timers of the collector that are armed
    batchCalls,     \* the processFn calls made so far, with their arguments
    processing,     \* useBatchRequests: the processing state
    batchUnhandled, \* a rejected flush promise nobody handles was produced
    batchMounted,   \* the owning component is mounted
    batchAdded,     \* number of items passed to addToQueue so far
    batchInFlightAtAdd, \* per item: the processFn calls in flight at its add
    batchFirstAt,   \* when the first item of the current queue was added,
                    \* 0 while the queue is empty
    lastRan,        \* useThrottle: lastRan.current
    throttleTimeoutRef, \* useThrottle: timeoutRef.current (NoTimer = null)
    throttleTimers, \* the timers of the throttle that are armed
    isThrottled,    \* useThrottle: the isThrottled state
    invocations,    \* the invocations of the underlying callback so far
    throttleCalls,  \* number of calls of throttledFn so far
    throttleMounted,\* the owning component is mounted
    debPhase,       \* useDebounce: "init" (not rendered yet), "mounted",
                    \* "unmounted"
    debLeading,     \* useDebounce: options?.leading
    debValue,       \* useDebounce: the value argument of the last render
    debouncedValue, \* useDebounce: the debouncedValue state
    debHandler,     \* the handler the cleanup of the last effect run clears
    debTimers,      \* the timers of the debounce that are armed
    firstUpdateRef, \* useDebounce: firstUpdateRef.current
    mountedRef,     \* useDebounce: mountedRef.current
    debArrivals,    \* the values passed to the hook so far, with their times
    debReleases,    \* the setDebouncedValue calls of the timer so far
    timeout,        \* debounce: the closure variable timeout (NoTimer = null)
    fnTimers,       \* the timers of the debounced function that are armed
    debouncedCalls, \* number of calls of the debounced function so far
    funcRuns,       \* the func.apply calls of the timer so far
    geolocation,    \* navigator.geolocation: "unread" until the page first
                    \* reads it
    sensorRequests, \* the geolocation requests the sensor has not answered
    locCalls,       \* the updateLocation calls so far, with their promise
                    \* and outcome
    location,       \* useUserLocation: the location state
    loading,        \* useUserLocation: the loading state
    error,          \* useUserLocation: the error state
    isMountedRef,   \* useUserLocation: isMountedRef.current
    lscPhase,       \* useLocalStorageCache: "init" (not rendered yet),
                    \* "mounted", "unmounted"
    lscValue,       \* useLocalStorageCache: the value state
    lscUpdates,     \* the renders of the hook with a new value so far, with
                    \* their times
    lscWrites,      \* the setCache calls of the hook's debounced writer so far
    cart,           \* useCart: the cart state
    cartOps,        \* number of cart operations so far
    cartOp,         \* the cart operation that ran last, with the cart it
                    \* started from
    storeCart,      \* useCartStore: the cart of the store
    storeOps,       \* number of operations on the store so far
    storeOp         \* the store operation that ran last, with the cart it
                    \* started from

cacheVars == <<memoryCache, localStorage, cacheOp>>
memoVars == <<memoTable, memoRecency, memoOp>>
batchVars == <<queueRef, batchTimeoutRef, batchTimers, batchCalls, processing,
               batchUnhandled, batchMounted, batchAdded, batchInFlightAtAdd,
               batchFirstAt>>
throttleVars == <<lastRan, throttleTimeoutRef, throttleTimers, isThrottled,
                  invocations, throttleCalls, throttleMounted>>

debounceVars == <<debPhase, debLeading, debValue, debouncedValue, debHandler,
                  debTimers, firstUpdateRef, mountedRef, debArrivals,
                  debReleases>>

fnDebounceVars == <<timeout, fnTimers, debouncedCalls, funcRuns>>

locationVars == <<geolocation, sensorRequests, locCalls, location, loading,
                  error, isMountedRef>>

storageHookVars == <<lscPhase, lscValue, lscUpdates, lscWrites>>

cartVars == <<cart, cartOps, cartOp>>

storeVars == <<storeCart, storeOps, storeOp>>

notCache == <<memoVars, batchVars, throttleVars, debounceVars,
              fnDebounceVars, locationVars, storageHookVars, cartVars, storeVars>>
notMemo == <<cacheVars, batchVars, throttleVars, debounceVars,
             fnDebounceVars, locationVars, storageHookVars, cartVars, storeVars>>
notBatch == <<cacheVars, memoVars, throttleVars, debounceVars,
              fnDebounceVars, locationVars, storageHookVars, cartVars, storeVars>>
notThrottle == <<cacheVars, memoVars, batchVars, debounceVars,
                 fnDebounceVars, locationVars, storageHookVars, cartVars, storeVars>>
notDebounce == <<cacheVars, memoVars, batchVars, throttleVars,
                 fnDebounceVars, locationVars, storageHookVars, cartVars, storeVars>>
notFnDebounce == <<cacheVars, memoVars, batchVars, throttleVars,
                   debounceVars, locationVars, storageHookVars, cartVars, storeVars>>

notLocation == <<cacheVars, memoVars, batchVars, throttleVars, debounceVars,
                 fnDebounceVars, storageHookVars, cartVars, storeVars>>

\* the location service reads and writes the cache
notCacheOrLocation == <<memoVars, batchVars, throttleVars, debounceVars,
                        fnDebounceVars, storageHookVars, cartVars, storeVars>>

\* useLocalStorageCache works on the cache and on its debounced writer
notStorageHook == <<memoVars, batchVars, throttleVars, debounceVars,
                    locationVars, cartVars, storeVars>>

notCart == <<cacheVars, memoVars, batchVars, throttleVars, debounceVars,
             fnDebounceVars, locationVars, storageHookVars, storeVars>>

notStore == <<cacheVars, memoVars, batchVars, throttleVars, debounceVars,
              fnDebounceVars, locationVars, storageHookVars, cartVars>>

vars == <<now, memoryCache, localStorage, cacheOp, memoTable, memoRecency,
          memoOp, queueRef, batchTimeoutRef, batchTimers, batchCalls,
          processing, batchUnhandled, batchMounted, batchAdded,
          batchInFlightAtAdd, batchFirstAt, lastRan, throttleTimeoutRef, throttleTimers,
          isThrottled, invocations, throttleCalls, throttleMounted,
          debPhase, debLeading, debValue, debouncedValue, debHandler,
          debTimers, firstUpdateRef, mountedRef, debArrivals, debReleases,
          timeout, fnTimers, debouncedCalls, funcRuns,
          geolocation, sensorRequests, locCalls, location, loading, error, isMountedRef,
          lscPhase, lscValue, lscUpdates, lscWrites,
          cart, cartOps, cartOp,
          storeCart, storeOps, storeOp>>

----------------------------------------------------------------------------
(* Bounds of the model *)

MaxNow == 2                 \* the cache is observed for this long
MaxMemoNow == 1             \* the memoizer is observed for this long
MaxItems == 3               \* items passed to addToQueue
BatchDelay == 2             \* useBatchRequests: the delay argument
MaxBatchSize == 2           \* useBatchRequests: the maxBatchSize argument
MaxTimerNow == 2 * BatchDelay   \* the collector is observed for this long
ThrottleDelay == 3          \* useThrottle: the delay argument
MaxThrottleCalls == 3       \* calls of the throttled function
DebounceDelay == 2           \* useDebounce: the delay argument
MaxArrivals == 3             \* values passed to useDebounce, the first included
MaxDebounceNow == 2 * DebounceDelay + 1
Wait == DebounceDelay        \* debounce: the wait argument
MaxDebouncedCalls == MaxArrivals     \* calls of the debounced function
MaxHooksNow == ThrottleDelay + 1       \* the teardown is observed for this long
MaxThrottleNow == 2 * ThrottleDelay + 1  \* the throttle is observed for this long
MaxCartOps == 3             \* operations on a cart
MaxLocCalls == 2            \* calls of updateLocation, the mount effect's included

\* Date.now() when the page starts: far enough from the epoch
StartTime == BatchDelay + ThrottleDelay

Keys == {"a", "b"}          \* cache keys the callers use
Values == {"v1", "v2"}      \* opaque JSON-serialisable payloads
ExpiresInArgs == {-1, 0, 1}
    \* options.expiresIn; 0 also stands for an omitted option, both are falsy
SetCacheArgs ==
    \* the (key, value, expiresIn, useMemoryCache) the callers pass
    ({"a"} \X Values \X ExpiresInArgs \X BOOLEAN) \cup {<<"b", "v1", 0, TRUE>>}

----------------------------------------------------------------------------
(* cacheUtils *)

CACHE_PREFIX == "food_delivery_app_cache_"
OTHER_PREFIX == "other_app_"
DEFAULT_CACHE_TIME == 5 * 60 * 1000

Null == "null"              \* the miss value getCache returns
NoEntry == [absent |-> TRUE]        \* Map.get(key) === undefined
NoRaw == [kind |-> "none"]          \* localStorage.getItem(key) === null
Corrupt == [kind |-> "corrupt"]     \* a string JSON.parse rejects

\* `${CACHE_PREFIX}${key}`: a storage key is the pair of its prefix and rest
StorageKey(key) == <<CACHE_PREFIX, key>>
StartsWith(skey, prefix) == skey[1] = prefix
StorageKeys == {StorageKey(k) : k \in Keys} \cup {<<OTHER_PREFIX, "x">>}

\* JSON.stringify(item) of {value, timestamp, expiresAt}
Stringify(item) ==
    [kind |-> "json", value |-> item.value, timestamp |-> item.timestamp,
     expiresAt |-> item.expiresAt]

\* JSON.parse(raw): defined for the strings stringify produced, throws on
\* the others
Parses(raw) == raw.kind = "json"
Parse(raw) ==
    [value |-> raw.value, timestamp |-> raw.timestamp,
     expiresAt |-> raw.expiresAt]

NoOp == [op |-> "none", key |-> "", value |-> Null, expiresIn |-> 0,
         useMemoryCache |-> TRUE, at |-> StartTime, result |-> Null,
         threw |-> FALSE, io |-> 0, writeFailed |-> FALSE]

Op(name, key, value, expiresIn, useMem, result, threw, io, writeFailed) ==
    [op |-> name, key |-> key, value |-> value, expiresIn |-> expiresIn,
     useMemoryCache |-> useMem, at |-> now, result |-> result,
     threw |-> threw, io |-> io, writeFailed |-> writeFailed]

NoKey == "<null>"           \* oldestKey = null
NoMemoOp == [op |-> "none", key |-> NoKey, result |-> Null, computed |-> FALSE,
             threw |-> FALSE, evicted |-> NoKey]

NoTimer == 0                \* timeoutRef.current = null

\* cartService: the cart of a session that starts
EMPTY_CART == [items |-> <<>>, vendorId |-> Null, vendorName |-> Null]
NoMenuItem == [id |-> "", vendor_id |-> ""]
NoCartOp == [op |-> "none", menuItem |-> NoMenuItem, prevCart |-> EMPTY_CART]

\* api.ts: cart: { items: [] }; undefined is written Null
EMPTY_STORE_CART == [items |-> <<>>, vendorId |-> Null, vendorName |-> Null]
NoStoreOp == [op |-> "none", menuItem |-> NoMenuItem,
              prevCart |-> EMPTY_STORE_CART, confirmClear |-> FALSE]

Init ==
    /\ now = StartTime
    /\ memoryCache = [k \in Keys |-> NoEntry]
    /\ localStorage = [s \in StorageKeys |->
                         IF StartsWith(s, CACHE_PREFIX) THEN NoRaw
                         ELSE Stringify([value |-> "v1", timestamp |-> now,
                                         expiresAt |-> now + 1])]
    /\ cacheOp = NoOp
    /\ memoTable = <<>>
    /\ memoRecency = <<>>
    /\ memoOp = NoMemoOp
    /\ queueRef = <<>>
    /\ batchTimeoutRef = NoTimer
    /\ batchTimers = {}
    /\ batchCalls = <<>>
    /\ processing = FALSE
    /\ batchUnhandled = FALSE
    /\ batchMounted = TRUE
    /\ batchAdded = 0
    /\ batchInFlightAtAdd = [i \in 1..MaxItems |-> {}]
    /\ batchFirstAt = 0
    /\ lastRan = 0
    /\ throttleTimeoutRef = NoTimer
    /\ throttleTimers = {}
    /\ isThrottled = FALSE
    /\ invocations = <<>>
    /\ throttleCalls = 0
    /\ throttleMounted = TRUE
    /\ debPhase = "init"
    /\ debLeading = FALSE
    /\ debValue = 0
    /\ debouncedValue = 0
    /\ debHandler = NoTimer
    /\ debTimers = {}
    /\ firstUpdateRef = TRUE
    /\ mountedRef = TRUE
    /\ debArrivals = <<>>
    /\ debReleases = <<>>
    /\ timeout = NoTimer
    /\ fnTimers = {}
    /\ debouncedCalls = 0
    /\ funcRuns = <<>>
    /\ geolocation = "unread"
    /\ sensorRequests = {}
    /\ locCalls = <<>>
    /\ location = Null
    /\ loading = TRUE
    /\ error = Null
    /\ isMountedRef = TRUE
    /\ lscPhase = "init"
    /\ lscValue = Null
    /\ lscUpdates = <<>>
    /\ lscWrites = <<>>
    /\ cart = EMPTY_CART
    /\ cartOps = 0
    /\ cartOp = NoCartOp
    /\ storeCart = EMPTY_STORE_CART
    /\ storeOps = 0
    /\ storeOp = NoStoreOp

\* the clock advances by one millisecond
Advance(limit) ==
    /\ now < limit
    /\ now' = now + 1
    /\ UNCHANGED <<cacheVars, memoVars, batchVars, throttleVars,
                   debounceVars, fnDebounceVars, locationVars, storageHookVars, cartVars, storeVars>>

Tick == Advance(StartTime + MaxNow)
TimerTick == Advance(StartTime + MaxTimerNow)
ThrottleTick == Advance(StartTime + MaxThrottleNow)
DebounceTick == Advance(StartTime + MaxDebounceNow)
HooksTick == Advance(StartTime + MaxHooksNow)
MemoTick == Advance(StartTime + MaxMemoNow)

\* options?.expiresIn || DEFAULT_CACHE_TIME
EffectiveExpiresIn(expiresIn) ==
    IF expiresIn = 0 THEN DEFAULT_CACHE_TIME ELSE expiresIn

\* setCache(key, value, {expiresIn, useMemoryCache}); setItemThrows: the
\* durable write raises (quota exceeded, storage unavailable)
SetCache(key, value, expiresIn, useMem, setItemThrows) ==
    LET expiresAt == now + EffectiveExpiresIn(expiresIn)
        item == [value |-> value, timestamp |-> now, expiresAt |-> expiresAt]
    IN  /\ IF setItemThrows
             THEN UNCHANGED <<localStorage, memoryCache>>
             ELSE /\ localStorage' =
                        [localStorage EXCEPT ![StorageKey(key)] = Stringify(item)]
                  /\ IF useMem
                       THEN memoryCache' =
                              [memoryCache EXCEPT ![key] =
                                 [value |-> value, expiresAt |-> expiresAt]]
                       ELSE UNCHANGED memoryCache
        /\ cacheOp' = Op("set", key, value, expiresIn, useMem, Null, FALSE, 1,
                         setItemThrows)
        /\ UNCHANGED now

SetCacheCall ==
    /\ \E args \in SetCacheArgs, setItemThrows \in BOOLEAN :
          SetCache(args[1], args[2], args[3], args[4], setItemThrows)
    /\ UNCHANGED notCache

MemHit_Expired(memItem, t) == memItem # NoEntry /\ t >= memItem.expiresAt

\* getCache: memItem && now < memItem.expiresAt
MemHit(memItem, t) == memItem # NoEntry /\ t < memItem.expiresAt

\* getCache: now > item.expiresAt
StoredExpired(item, t) == t > item.expiresAt

Refreshed_Extended(item, t) ==
    [value |-> item.value, expiresAt |-> t + DEFAULT_CACHE_TIME]

\* getCache: memoryCache.set(key, { value: item.value, expiresAt: item.expiresAt })
Refreshed(item, t) == [value |-> item.value, expiresAt |-> item.expiresAt]

Removed_DurableOnly(key) ==
    /\ localStorage' = [localStorage EXCEPT ![StorageKey(key)] = NoRaw]
    /\ UNCHANGED memoryCache

\* the two tiers after removeCache(key) ran to its end
Removed(key) ==
    /\ localStorage' = [localStorage EXCEPT ![StorageKey(key)] = NoRaw]
    /\ memoryCache' = [memoryCache EXCEPT ![key] = NoEntry]

\* getCache(key); getItemThrows / removeItemThrows: the adapter call raises
GetCache(key, getItemThrows, removeItemThrows) ==
    LET memItem == memoryCache[key]
        raw == localStorage[StorageKey(key)]
        Return(result, io) ==
            /\ cacheOp' = Op("get", key, Null, 0, TRUE, result, FALSE, io, FALSE)
            /\ UNCHANGED now
    IN  IF MemHit(memItem, now)
          THEN /\ Return(memItem.value, 0)
               /\ UNCHANGED <<memoryCache, localStorage>>
        ELSE IF getItemThrows
          THEN /\ Return(Null, 1)
               /\ UNCHANGED <<memoryCache, localStorage>>
        ELSE IF raw = NoRaw
          THEN /\ Return(Null, 1)
               /\ UNCHANGED <<memoryCache, localStorage>>
        ELSE IF ~Parses(raw)
          THEN /\ Return(Null, 1)
               /\ UNCHANGED <<memoryCache, localStorage>>
        ELSE IF StoredExpired(Parse(raw), now)
          THEN /\ Return(Null, 2)
               /\ IF removeItemThrows
                    THEN UNCHANGED <<memoryCache, localStorage>>
                    ELSE Removed(key)
        ELSE /\ Return(Parse(raw).value, 1)
             /\ memoryCache' =
                  [memoryCache EXCEPT ![key] = Refreshed(Parse(raw), now)]
             /\ UNCHANGED localStorage

\* getCache(key) reaches localStorage.getItem / removeCache: an adapter
\* failure is chosen only for a call getCache makes
ReachesGetItem(key) == ~MemHit(memoryCache[key], now)
ReachesRemoveItem(key) ==
    LET raw == localStorage[StorageKey(key)]
    IN  /\ ReachesGetItem(key)
        /\ raw # NoRaw
        /\ Parses(raw)
        /\ StoredExpired(Parse(raw), now)

GetCacheCall ==
    /\ \E key \in Keys, getItemThrows \in BOOLEAN,
          removeItemThrows \in BOOLEAN :
          /\ getItemThrows => ReachesGetItem(key)
          /\ removeItemThrows => (~getItemThrows /\ ReachesRemoveItem(key))
          /\ GetCache(key, getItemThrows, removeItemThrows)
    /\ UNCHANGED notCache

\* removeCache(key): no try/catch, a raising removeItem leaves the function
RemoveCache(key, removeItemThrows) ==
    /\ IF removeItemThrows
         THEN UNCHANGED <<memoryCache, localStorage>>
         ELSE Removed(key)
    /\ cacheOp' = Op("remove", key, Null, 0, TRUE, Null, removeItemThrows, 1,
                     FALSE)
    /\ UNCHANGED now

RemoveCacheCall ==
    /\ \E key \in Keys, removeItemThrows \in BOOLEAN :
          RemoveCache(key, removeItemThrows)
    /\ UNCHANGED notCache

OwnedKeys_All == StorageKeys

\* the storage keys clearAllCache removes when nothing raises
OwnedKeys == {s \in StorageKeys : StartsWith(s, CACHE_PREFIX)}

Cleared_Kept(cache) == cache

\* memoryCache.clear()
Cleared(cache) == [k \in Keys |-> NoEntry]

\* clearAllCache(); when an adapter call raises, the keys in `removed` were
\* already deleted and memoryCache.clear() is not reached
ClearAllCache(throws, removed) ==
    /\ IF throws
         THEN /\ localStorage' = [s \in StorageKeys |->
                                    IF s \in removed THEN NoRaw
                                    ELSE localStorage[s]]
              /\ UNCHANGED memoryCache
         ELSE /\ localStorage' = [s \in StorageKeys |->
                                    IF s \in OwnedKeys THEN NoRaw
                                    ELSE localStorage[s]]
              /\ memoryCache' = Cleared(memoryCache)
    /\ cacheOp' = Op("clearAll", "", Null, 0, TRUE, Null, throws,
                     Cardinality(removed) + 1, FALSE)
    /\ UNCHANGED now

ClearAllCacheCall ==
    LET present == {s \in OwnedKeys : localStorage[s] # NoRaw}
    IN  /\ \E throws \in BOOLEAN :
              \E removed \in SUBSET present :
                /\ throws => (removed # present \/ present = {})
                /\ ~throws => removed = present
                /\ ClearAllCache(throws, removed)
        /\ UNCHANGED notCache

\* the page is reloaded: the module-level Map is created anew, the durable
\* store is kept
Reload ==
    /\ \E k \in Keys : memoryCache[k] # NoEntry
    /\ memoryCache' = [k \in Keys |-> NoEntry]
    /\ cacheOp' = Op("reload", "", Null, 0, TRUE, Null, FALSE, 0, FALSE)
    /\ UNCHANGED <<now, localStorage, notCache>>

\* a record of the durable store is damaged outside the cache (truncated
\* write, another script): JSON.parse will reject it
DamageRecord ==
    \E key \in Keys :
        /\ localStorage[StorageKey(key)] \notin {NoRaw, Corrupt}
        /\ localStorage' = [localStorage EXCEPT ![StorageKey(key)] = Corrupt]
        /\ cacheOp' = Op("damage", key, Null, 0, TRUE, Null, FALSE, 0, FALSE)
        /\ UNCHANGED <<now, memoryCache, notCache>>

CacheNext ==
    \/ Tick
    \/ SetCacheCall
    \/ GetCacheCall
    \/ RemoveCacheCall
    \/ ClearAllCacheCall
    \/ Reload
    \/ DamageRecord

SpecCache == Init /\ [][CacheNext]_vars

----------------------------------------------------------------------------
(* optimizationUtils: memoize *)

MemoMaxSizeArg == 2         \* options.maxSize the caller passes
MemoArgs == {"", "A", "B", "C"}     \* argument of the memoized function
Results == {"r1", "r2"}     \* what the wrapped function can return

\* options.maxSize || 100
MaxSize == IF MemoMaxSizeArg = 0 THEN 100 ELSE MemoMaxSizeArg

\* the resolver the caller passes: (s: string) => s
Resolver(args) == args

\* cache.has(key)
Has(table, key) == \E i \in 1..Len(table) : table[i].key = key
IndexOf(table, key) == CHOOSE i \in 1..Len(table) : table[i].key = key
KeysOf(table) == {table[i].key : i \in 1..Len(table)}

\* cache.delete(key)
Delete(table, key) == SelectSeq(table, LAMBDA e : e.key # key)

\* the for-loop over cache.entries(): oldestKey is null and oldestTime is
\* Infinity until the first entry is seen, afterwards an entry replaces the
\* candidate only when its lastAccessed is strictly smaller
RECURSIVE OldestFrom(_, _, _, _)
OldestFrom(table, i, oldestKey, oldestTime) ==
    IF i > Len(table) THEN oldestKey
    ELSE IF oldestKey = NoKey \/ table[i].lastAccessed < oldestTime
      THEN OldestFrom(table, i + 1, table[i].key, table[i].lastAccessed)
      ELSE OldestFrom(table, i + 1, oldestKey, oldestTime)

OldestKey(table) == OldestFrom(table, 1, NoKey, 0)

\* if (oldestKey): null and the empty string are falsy
Truthy(key) == key # NoKey /\ key # ""

\* if (cache.size >= maxSize)
IsFull(table) == Len(table) >= MaxSize

\* the key the eviction block deletes, NoKey when it deletes nothing
Evicted(table) ==
    IF IsFull(table) /\ Truthy(OldestKey(table)) THEN OldestKey(table)
    ELSE NoKey

\* the order of last access after `key` was accessed and `gone` deleted
Touch(recency, key, gone) ==
    Append(SelectSeq(recency, LAMBDA k : k # key /\ k # gone), key)

HitValue_First(table, key) == table[1].value

\* the hit: const item = cache.get(key)!; return item.value
HitValue(table, key) == table[IndexOf(table, key)].value

\* cache.clear()
TableAfterClear(table) == <<>>

TableAfterThrow_Evicted(table) == Delete(table, Evicted(table))

\* the table after a call that the resolver or fn left by raising: the
\* exception leaves memoized before any statement that writes the Map
TableAfterThrow(table) == table

MemoOp(key, result, computed, threw, evicted) ==
    [op |-> "call", key |-> key, result |-> result, computed |-> computed,
     threw |-> threw, evicted |-> evicted]

\* memoized(args); result: what fn returns when it runs; resolverThrows,
\* fnThrows: the resolver or fn raises
Memoized(args, result, resolverThrows, fnThrows) ==
    LET key == Resolver(args)
    IN  IF resolverThrows
          THEN /\ memoOp' = MemoOp(NoKey, Null, FALSE, TRUE, NoKey)
               /\ memoTable' = TableAfterThrow(memoTable)
               /\ UNCHANGED memoRecency
        ELSE IF Has(memoTable, key)
          THEN /\ memoTable' =
                    [memoTable EXCEPT
                       ![IndexOf(memoTable, key)].lastAccessed = now]
               /\ memoRecency' = Touch(memoRecency, key, NoKey)
               /\ memoOp' = MemoOp(key, HitValue(memoTable, key),
                                   FALSE, FALSE, NoKey)
        ELSE IF fnThrows
          THEN /\ memoOp' = MemoOp(key, Null, TRUE, TRUE, NoKey)
               /\ memoTable' = TableAfterThrow(memoTable)
               /\ UNCHANGED memoRecency
        ELSE /\ memoTable' =
                  Append(Delete(memoTable, Evicted(memoTable)),
                         [key |-> key, value |-> result, lastAccessed |-> now])
             /\ memoRecency' = Touch(memoRecency, key, Evicted(memoTable))
             /\ memoOp' = MemoOp(key, result, TRUE, FALSE, Evicted(memoTable))

MemoizedCall ==
    /\ \E args \in MemoArgs, result \in Results, resolverThrows \in BOOLEAN,
          fnThrows \in BOOLEAN :
          Memoized(args, result, resolverThrows, fnThrows)
    /\ UNCHANGED <<now, notMemo>>

\* memoized.clearCache()
ClearCache ==
    /\ memoTable' = TableAfterClear(memoTable)
    /\ memoRecency' = <<>>
    /\ memoOp' = [NoMemoOp EXCEPT !.op = "clear"]
    /\ UNCHANGED <<now, notMemo>>

MemoNext ==
    \/ MemoTick
    \/ MemoizedCall
    \/ ClearCache

SpecMemo == Init /\ [][MemoNext]_vars

----------------------------------------------------------------------------
(* optimizationUtils: useBatchRequests *)

\* the processFn calls whose promise has not settled
InFlight == {c \in 1..Len(batchCalls) : batchCalls[c].status = "inflight"}

\* const itemsToProcess = [...queueRef.current]
ItemsToProcess(queue) == queue

\* the queue is left as it was
QueueAfterFlush_Kept(queue) == queue

\* queueRef.current = []
QueueAfterFlush(queue) == <<>>

ReachedMax_Above(queue) == Len(queue) > MaxBatchSize

\* if (queueRef.current.length >= maxBatchSize)
ReachedMax(queue) == Len(queue) >= MaxBatchSize

NoTimerArmed_Always(ref) == TRUE

\* else if (!timeoutRef.current)
NoTimerArmed(ref) == ref = NoTimer

ClearTimeout_None(timers, handle) == timers

\* clearTimeout(handle)
ClearTimeout(timers, handle) == {t \in timers : t.id # handle}

QueueEmpty_Never(queue) == FALSE

\* if (queueRef.current.length === 0) return []
QueueEmpty(queue) == Len(queue) = 0

\* processBatch() up to its await, on the queue it finds: an empty queue
\* returns [] at once, otherwise processFn is called with a copy of the queue
ProcessBatch(queue, trigger) ==
    IF QueueEmpty(queue)
      THEN /\ queueRef' = queue
           /\ UNCHANGED <<batchCalls, processing>>
      ELSE /\ processing' = TRUE
           /\ batchCalls' =
                Append(batchCalls, [items |-> ItemsToProcess(queue),
                                    trigger |-> trigger,
                                    status |-> "inflight"])
           /\ queueRef' = QueueAfterFlush(queue)

\* addToQueue(item); the items are numbered in the order they are added
AddToQueue(item) ==
    LET queue == Append(queueRef, item)
    IN  /\ batchMounted
        /\ item = batchAdded + 1
        /\ item <= MaxItems
        /\ now + BatchDelay <= StartTime + MaxTimerNow
        /\ batchAdded' = item
        /\ batchInFlightAtAdd' = [batchInFlightAtAdd EXCEPT ![item] = InFlight]
        /\ batchFirstAt' = IF ReachedMax(queue) THEN 0
                           ELSE IF Len(queueRef) = 0 THEN now
                           ELSE batchFirstAt
        /\ IF ReachedMax(queue)
             THEN /\ batchTimers' = ClearTimeout(batchTimers, batchTimeoutRef)
                  /\ batchTimeoutRef' = NoTimer
                  /\ ProcessBatch(queue, "size")
           ELSE IF NoTimerArmed(batchTimeoutRef)
             THEN /\ batchTimeoutRef' = item
                  /\ batchTimers' =
                       batchTimers \cup {[id |-> item, due |-> now + BatchDelay]}
                  /\ queueRef' = queue
                  /\ UNCHANGED <<batchCalls, processing>>
           ELSE /\ queueRef' = queue
                /\ UNCHANGED <<batchTimeoutRef, batchTimers, batchCalls,
                               processing>>
        /\ UNCHANGED <<now, notBatch, batchUnhandled, batchMounted>>

AddToQueueCall == \E item \in 1..MaxItems : AddToQueue(item)

\* the ref keeps the handle of the timer that fired
RefAfterFire_Stale(ref) == ref

\* timeoutRef.current = null at the end of the timer callback
RefAfterFire(ref) == NoTimer

\* the timer callback: processBatch(); timeoutRef.current = null
BatchTimerFire ==
    \E t \in batchTimers :
        /\ now >= t.due
        /\ batchTimers' = batchTimers \ {t}
        /\ ProcessBatch(queueRef, "timer")
        /\ batchTimeoutRef' = RefAfterFire(batchTimeoutRef)
        /\ batchFirstAt' = 0
        /\ UNCHANGED <<now, notBatch, batchUnhandled, batchMounted,
                       batchAdded, batchInFlightAtAdd>>

\* the component calls the returned processBatch() itself
ProcessBatchCall ==
    /\ batchMounted
    /\ Len(queueRef) > 0
    /\ ProcessBatch(queueRef, "manual")
    /\ batchFirstAt' = 0
    /\ UNCHANGED <<now, notBatch, batchTimeoutRef, batchTimers,
                   batchUnhandled, batchMounted, batchAdded,
                   batchInFlightAtAdd>>

\* the promise of processFn call c settles: finally { setProcessing(false) };
\* a rejection is rethrown, and only a manual caller holds the promise
Settle(c, ok) ==
    /\ c \in InFlight
    /\ batchCalls' =
         [batchCalls EXCEPT ![c].status = IF ok THEN "resolved" ELSE "rejected"]
    /\ processing' = FALSE
    /\ batchUnhandled' =
         (batchUnhandled \/ (~ok /\ batchCalls[c].trigger # "manual"))
    /\ UNCHANGED <<now, notBatch, queueRef, batchTimeoutRef,
                   batchTimers, batchMounted, batchAdded, batchInFlightAtAdd,
                   batchFirstAt>>

SettleCall == \E c \in 1..Len(batchCalls), ok \in BOOLEAN : Settle(c, ok)

\* the unmount cleanup: clearTimeout(timeoutRef.current), the ref is kept
BatchUnmount ==
    /\ batchMounted
    /\ batchMounted' = FALSE
    /\ batchTimers' = ClearTimeout(batchTimers, batchTimeoutRef)
    /\ UNCHANGED <<now, notBatch, queueRef, batchTimeoutRef,
                   batchCalls, processing, batchUnhandled, batchAdded,
                   batchInFlightAtAdd, batchFirstAt>>

BatchNext ==
    \/ TimerTick
    \/ AddToQueueCall
    \/ BatchTimerFire
    \/ ProcessBatchCall
    \/ SettleCall
    \/ BatchUnmount

SpecBatch == Init /\ [][BatchNext]_vars

\* time passes and the event loop runs a timer that is due
FairSpecBatch ==
    SpecBatch /\ WF_vars(TimerTick) /\ WF_vars(BatchTimerFire)

----------------------------------------------------------------------------
(* optimizationUtils: useThrottle *)

\* if (now - lastRan.current < delay)
InWindow(t, ran) == t - ran < ThrottleDelay

\* the setTimeout delay of the trailing call: delay - (now - lastRan.current)
TrailingDelay(t, ran) == ThrottleDelay - (t - ran)

\* lastRan.current = now inside the timer callback: `now` is the time of the
\* throttledFn call that armed the timer, not the time the timer fires
LastRanAfterTrailing(armedAt, firedAt) == armedAt

\* throttledFn(args); the calls are numbered, the number stands for the
\* arguments of the call
ThrottledFn(args) ==
    /\ throttleMounted
    /\ args = throttleCalls + 1
    /\ args <= MaxThrottleCalls
    /\ now + ThrottleDelay <= StartTime + MaxThrottleNow
    /\ throttleCalls' = args
    /\ IF InWindow(now, lastRan)
         THEN /\ isThrottled' = TRUE
              /\ throttleTimers' =
                   ClearTimeout(throttleTimers, throttleTimeoutRef) \cup
                     {[id |-> args, due |-> now + TrailingDelay(now, lastRan),
                       args |-> args, armedAt |-> now]}
              /\ throttleTimeoutRef' = args
              /\ UNCHANGED <<lastRan, invocations>>
         ELSE /\ lastRan' = now
              /\ invocations' =
                   Append(invocations,
                          [at |-> now, args |-> args, kind |-> "immediate"])
              /\ isThrottled' = FALSE
              /\ UNCHANGED <<throttleTimers, throttleTimeoutRef>>
    /\ UNCHANGED <<now, notThrottle, throttleMounted>>

ThrottledFnCall == \E args \in 1..MaxThrottleCalls : ThrottledFn(args)

\* the trailing timer callback
ThrottleTimerFire ==
    \E t \in throttleTimers :
        /\ now >= t.due
        /\ throttleTimers' = throttleTimers \ {t}
        /\ lastRan' = LastRanAfterTrailing(t.armedAt, now)
        /\ invocations' =
             Append(invocations,
                    [at |-> now, args |-> t.args, kind |-> "trailing"])
        /\ isThrottled' = FALSE
        /\ throttleTimeoutRef' = NoTimer
        /\ UNCHANGED <<now, notThrottle, throttleCalls, throttleMounted>>

\* the unmount cleanup: clearTimeout(timeoutRef.current)
ThrottleUnmount ==
    /\ throttleMounted
    /\ throttleMounted' = FALSE
    /\ throttleTimers' = ClearTimeout(throttleTimers, throttleTimeoutRef)
    /\ UNCHANGED <<now, notThrottle, lastRan, throttleTimeoutRef, isThrottled,
                   invocations, throttleCalls>>

ThrottleNext ==
    \/ ThrottleTick
    \/ ThrottledFnCall
    \/ ThrottleTimerFire
    \/ ThrottleUnmount

SpecThrottle == Init /\ [][ThrottleNext]_vars

----------------------------------------------------------------------------
(* Properties of the two-tier cache *)

\* a getCache(k) call, with any adapter behaviour / with no adapter failure
GetStep(k) == \E g \in BOOLEAN, r \in BOOLEAN : GetCache(k, g, r)
GetOk(k) == GetCache(k, FALSE, FALSE)

\* C1: set(k, v, ttl) with ttl > 0 and the default options, directly
\* followed by get(k): at the same instant get returns v, and once the clock
\* is past the ttl get returns a miss.
C1_SetThenGet ==
    [][\A k \in Keys :
         (/\ cacheOp.op = "set" /\ cacheOp.key = k
          /\ cacheOp.expiresIn > 0 /\ cacheOp.useMemoryCache
          /\ GetOk(k))
         => /\ (now = cacheOp.at => cacheOp'.result = cacheOp.value)
            /\ (now > cacheOp.at + cacheOp.expiresIn
                   => cacheOp'.result = Null)]_vars

\* C2: after a set(k, v2, ...) whose durable write went through, whatever
\* its options, the next get(k) before the expiry returns v2.
C2_LastWriteWins ==
    [][\A k \in Keys :
         (/\ cacheOp.op = "set" /\ cacheOp.key = k /\ ~cacheOp.writeFailed
          /\ now < cacheOp.at + EffectiveExpiresIn(cacheOp.expiresIn)
          /\ GetOk(k))
         => cacheOp'.result = cacheOp.value]_vars

\* C3: a value get(k) returns is the value of an entry, in one of the two
\* tiers, with now < expiresAt.
C3_NoExpiredValue ==
    [][\A k \in Keys :
         (GetStep(k) /\ cacheOp'.result # Null)
         => \/ /\ memoryCache[k] # NoEntry
               /\ memoryCache[k].value = cacheOp'.result
               /\ now < memoryCache[k].expiresAt
            \/ /\ Parses(localStorage[StorageKey(k)])
               /\ Parse(localStorage[StorageKey(k)]).value = cacheOp'.result
               /\ now < Parse(localStorage[StorageKey(k)]).expiresAt]_vars

\* C4: when the durable write of set(k, v, ttl) raises, set still returns
\* normally and the memory tier holds (v, now + ttl).
C4_WriteFailureKeepsMemory ==
    (cacheOp.op = "set" /\ cacheOp.writeFailed /\ cacheOp.useMemoryCache)
    => /\ ~cacheOp.threw
       /\ memoryCache[cacheOp.key] =
            [value |-> cacheOp.value,
             expiresAt |-> cacheOp.at + EffectiveExpiresIn(cacheOp.expiresIn)]

\* C5: no call of set, get, remove or clearAll lets an adapter failure
\* escape as an exception.
C5_NoThrow == ~cacheOp.threw

----------------------------------------------------------------------------
(* Properties of memoize *)

\* C6: after every call the table holds at most maxSize entries, whatever
\* fingerprints the resolver returned.
C6_SizeBound == Len(memoTable) <= MaxSize

\* C7: a call that inserts a new (non-empty) fingerprint into a full table
\* whose least recently accessed fingerprint is non-empty evicts exactly
\* that least recently accessed entry: the keys afterwards are the keys
\* before, minus it, plus the new one.
C7_EvictsLeastRecent ==
    [][\A args \in MemoArgs :
         (/\ (\E r \in Results : Memoized(args, r, FALSE, FALSE))
          /\ ~Has(memoTable, Resolver(args))
          /\ Len(memoTable) = MaxSize
          /\ \A k \in KeysOf(memoTable) \cup {Resolver(args)} : k # "")
         => KeysOf(memoTable') =
              (KeysOf(memoTable) \ {memoRecency[1]}) \cup {Resolver(args)}]_vars

----------------------------------------------------------------------------
(* Properties of useBatchRequests *)

\* how often item i occurs in the argument lists of all processFn calls
Occurrences(i) ==
    Cardinality({p \in (1..Len(batchCalls)) \X (1..MaxItems) :
                   /\ p[2] <= Len(batchCalls[p[1]].items)
                   /\ batchCalls[p[1]].items[p[2]] = i})

\* C8: no item is passed to processFn more than once, and an item added
\* while a processFn call is in flight is not among that call's arguments.
C8_NoDoubleDispatch ==
    \A i \in 1..batchAdded :
        /\ Occurrences(i) <= 1
        /\ \A c \in batchInFlightAtAdd[i] :
              \A j \in 1..Len(batchCalls[c].items) : batchCalls[c].items[j] # i

\* an item added during an in-flight call has been passed to a later call
C8_Witness ==
    \E i \in 1..batchAdded :
        batchInFlightAtAdd[i] # {} /\ Occurrences(i) = 1

\* C9: every item added is eventually passed to processFn, unless the
\* collector is torn down first.
C9_EventuallyFlushed ==
    \A i \in 1..MaxItems :
        (batchAdded >= i) ~> (Occurrences(i) >= 1 \/ ~batchMounted)

\* the last item was added while a timer-triggered processFn call was in
\* flight, nothing was added after it, and it has been flushed by a timer
C9_Witness ==
    \E i \in 1..MaxItems :
        /\ batchAdded = i /\ batchMounted
        /\ \E c \in batchInFlightAtAdd[i] : batchCalls[c].trigger = "timer"
        /\ \E c \in 1..Len(batchCalls) :
              /\ batchCalls[c].trigger = "timer"
              /\ batchCalls[c].items = <<i>>

----------------------------------------------------------------------------
(* Properties of useThrottle *)

\* C10: two consecutive invocations of the underlying callback, immediate
\* or trailing, are at least `delay` apart.
C10_RateBound ==
    \A i \in 1..(Len(invocations) - 1) :
        invocations[i + 1].at - invocations[i].at >= ThrottleDelay

\* the windows of the throttle: an immediate invocation at s opens the
\* window from s to s + delay
WindowStarts ==
    {invocations[i].at : i \in {j \in 1..Len(invocations) :
                                  invocations[j].kind = "immediate"}}
WindowOpen == \E s \in WindowStarts : now < s + ThrottleDelay
WindowStart == CHOOSE s \in WindowStarts : \A s2 \in WindowStarts : s2 <= s

\* C11: a call outside any window invokes the callback at once with its own
\* arguments; a call inside the window invokes nothing and leaves exactly
\* one trailing call armed, due at window start + delay, with its arguments.
C11_ThrottleWindows ==
    [][\A a \in 1..MaxThrottleCalls :
         ThrottledFn(a)
         => IF WindowOpen
              THEN /\ invocations' = invocations
                   /\ throttleTimers' =
                        {[id |-> a, due |-> WindowStart + ThrottleDelay,
                          args |-> a, armedAt |-> now]}
              ELSE invocations' =
                     Append(invocations,
                            [at |-> now, args |-> a, kind |-> "immediate"])]_vars

\* C12: isThrottled is true during the whole window an immediate call opens.
C12_FlagDuringWindow == WindowOpen => isThrottled

----------------------------------------------------------------------------
\* Properties of getCache's tiers

\* C18: when the memory tier holds an entry of k with now < expiresAt,
\* getCache(k) returns that entry's value without reading, writing or
\* deleting anything in the durable tier, whatever the adapter holds or does.
C18_MemoryHitNoIO ==
    [][\A k \in Keys :
         (/\ memoryCache[k] # NoEntry
          /\ now < memoryCache[k].expiresAt
          /\ cacheOp'.op = "get"
          /\ GetStep(k))
         => /\ cacheOp'.result = memoryCache[k].value
            /\ cacheOp'.io = 0
            /\ localStorage' = localStorage
            /\ memoryCache' = memoryCache]_vars

\* a memory hit was served while the durable tier held no usable record
C18_Witness ==
    /\ cacheOp.op = "get"
    /\ cacheOp.io = 0
    /\ cacheOp.result # Null
    /\ memoryCache[cacheOp.key] # NoEntry
    /\ localStorage[StorageKey(cacheOp.key)] \in {NoRaw, Corrupt}

\* C19: with no memory entry of k and a durable record (v, expiresAt) with
\* now < expiresAt, getCache(k) returns v, stores (v, expiresAt) in the
\* memory tier with the same expiry, and leaves the durable record alone.
C19_RefreshKeepsExpiry ==
    [][\A k \in Keys :
         (/\ memoryCache[k] = NoEntry
          /\ Parses(localStorage[StorageKey(k)])
          /\ now < Parse(localStorage[StorageKey(k)]).expiresAt
          /\ cacheOp'.op = "get"
          /\ GetOk(k))
         => /\ cacheOp'.result = Parse(localStorage[StorageKey(k)]).value
            /\ memoryCache'[k] =
                 [value |-> Parse(localStorage[StorageKey(k)]).value,
                  expiresAt |-> Parse(localStorage[StorageKey(k)]).expiresAt]
            /\ localStorage' = localStorage]_vars

\* a get was served by the durable tier and filled the memory tier, at a
\* time later than the record's write
C19_Witness ==
    /\ cacheOp.op = "get"
    /\ cacheOp.io = 1
    /\ cacheOp.result # Null
    /\ memoryCache[cacheOp.key] # NoEntry
    /\ Parses(localStorage[StorageKey(cacheOp.key)])
    /\ Parse(localStorage[StorageKey(cacheOp.key)]).timestamp < now
    /\ memoryCache[cacheOp.key].expiresAt =
         Parse(localStorage[StorageKey(cacheOp.key)]).expiresAt

\* C20: when getCache(k) finds an expired memory entry of k, that entry is
\* gone from the memory tier when the call returns; stated for the case the
\* claim names, a durable tier without a record of k.
C20_ExpiredEntryDropped ==
    [][\A k \in Keys :
         (/\ GetOk(k)
          /\ localStorage[StorageKey(k)] = NoRaw
          /\ memoryCache[k] # NoEntry
          /\ now >= memoryCache[k].expiresAt)
         => \/ memoryCache'[k] = NoEntry
            \/ now < memoryCache'[k].expiresAt]_vars

----------------------------------------------------------------------------
\* Properties of useBatchRequests' flushes

\* C16: the addToQueue call that brings the queue to maxBatchSize calls
\* processFn inside that call with all queued items, cancels the pending
\* timer and leaves the queue empty; no flush carries more than maxBatchSize
\* items.
C16_FlushAtMaxSize ==
    [][/\ \A item \in 1..MaxItems :
            (AddToQueue(item) /\ Len(queueRef) + 1 = MaxBatchSize)
            => /\ batchCalls' =
                    Append(batchCalls, [items |-> Append(queueRef, item),
                                        trigger |-> "size",
                                        status |-> "inflight"])
               /\ queueRef' = <<>>
               /\ batchTimers' = {}
               /\ batchTimeoutRef' = NoTimer
       /\ \A c \in 1..Len(batchCalls') :
            Len(batchCalls'[c].items) <= MaxBatchSize]_vars

\* a flush by size happened: maxBatchSize items in one call, nothing queued,
\* no timer armed
C16_Witness ==
    /\ \E c \in 1..Len(batchCalls) :
          /\ batchCalls[c].trigger = "size"
          /\ Len(batchCalls[c].items) = MaxBatchSize
    /\ batchAdded = MaxBatchSize
    /\ queueRef = <<>>
    /\ batchTimers = {}

\* C17: a flush by the timer never happens earlier than delay after the
\* first item of the flushed batch was added.
C17_FlushNotEarly ==
    [][(BatchTimerFire /\ Len(queueRef) > 0)
       => now >= batchFirstAt + BatchDelay]_vars

----------------------------------------------------------------------------
(* optimizationUtils: useDebounce *)

DebValues == {1, 2}         \* the numbers passed as value

\* useState initialiser: the value itself with leading, otherwise 0 for a
\* number
InitialDebounced(value, leading) == IF leading THEN value ELSE 0

\* if (options?.leading && firstUpdateRef.current)
SkipsTimer(leading, first) == leading /\ first

EffectCleanup_None(timers, handler) == timers

\* return () => { clearTimeout(handler) }, run before the next effect run
EffectCleanup(timers, handler) == ClearTimeout(timers, handler)

\* one run of the effect on [value, delay, options?.leading] after the
\* render number `n` with `value`, the cleanup of the run before it included
DebounceEffect(n, value, leading) ==
    /\ debArrivals' = Append(debArrivals, [at |-> now, value |-> value])
    /\ IF SkipsTimer(leading, firstUpdateRef)
         THEN /\ firstUpdateRef' = FALSE
              /\ debHandler' = NoTimer
              /\ debTimers' = EffectCleanup(debTimers, debHandler)
         ELSE /\ debHandler' = n
              /\ debTimers' =
                   EffectCleanup(debTimers, debHandler) \cup
                     {[id |-> n, due |-> now + DebounceDelay, value |-> value]}
              /\ UNCHANGED firstUpdateRef

\* the first render of the component: useDebounce(value, delay, {leading})
DebounceMount(value, leading) ==
    /\ debPhase = "init"
    /\ now + DebounceDelay <= StartTime + MaxDebounceNow
    /\ debPhase' = "mounted"
    /\ debLeading' = leading
    /\ debValue' = value
    /\ debouncedValue' = InitialDebounced(value, leading)
    /\ DebounceEffect(1, value, leading)
    /\ UNCHANGED <<now, notDebounce, mountedRef, debReleases>>

DebounceMountCall ==
    \E value \in DebValues, leading \in BOOLEAN : DebounceMount(value, leading)

\* a render with a new value: the effect's dependencies changed
DebounceArrival(value) ==
    /\ debPhase = "mounted"
    /\ value # debValue
    /\ Len(debArrivals) < MaxArrivals
    /\ now + DebounceDelay <= StartTime + MaxDebounceNow
    /\ debValue' = value
    /\ DebounceEffect(Len(debArrivals) + 1, value, debLeading)
    /\ UNCHANGED <<now, notDebounce, debPhase, debLeading, debouncedValue,
                   mountedRef, debReleases>>

DebounceArrivalCall == \E value \in DebValues : DebounceArrival(value)

\* the timer callback: if (mountedRef.current) setDebouncedValue(value)
DebounceTimerFire ==
    \E t \in debTimers :
        /\ now >= t.due
        /\ debTimers' = debTimers \ {t}
        /\ IF mountedRef
             THEN /\ debouncedValue' = t.value
                  /\ debReleases' =
                       Append(debReleases,
                              [at |-> now, value |-> t.value, arrival |-> t.id,
                               seen |-> Len(debArrivals), due |-> t.due])
             ELSE UNCHANGED <<debouncedValue, debReleases>>
        /\ UNCHANGED <<now, notDebounce, debPhase, debLeading, debValue,
                       debHandler, firstUpdateRef, mountedRef, debArrivals>>

\* the unmount: both cleanups run, clearTimeout(handler) and
\* mountedRef.current = false
DebounceUnmount ==
    /\ debPhase = "mounted"
    /\ debPhase' = "unmounted"
    /\ debTimers' = EffectCleanup(debTimers, debHandler)
    /\ mountedRef' = FALSE
    /\ UNCHANGED <<now, notDebounce, debLeading, debValue, debouncedValue,
                   debHandler, firstUpdateRef, debArrivals, debReleases>>

DebounceNext ==
    \/ DebounceTick
    \/ DebounceMountCall
    \/ DebounceArrivalCall
    \/ DebounceTimerFire
    \/ DebounceUnmount

SpecDebounce == Init /\ [][DebounceNext]_vars

\* time passes and the event loop runs a timer that is due
FairSpecDebounce ==
    SpecDebounce /\ WF_vars(DebounceTick) /\ WF_vars(DebounceTimerFire)

----------------------------------------------------------------------------
\* Properties of useDebounce

\* the arrivals up to number n came less than delay after one another
Burst(n) ==
    \A i \in 1..(n - 1) :
        debArrivals[i + 1].at - debArrivals[i].at < DebounceDelay

\* every release carries the value of the arrival that was the last one when
\* the timer ran, was armed for delay after that arrival and is not early; no
\* arrival is released twice; the only armed timer is the last arrival's
DebounceReleasesLast ==
    /\ \A i \in 1..Len(debReleases) :
          LET r == debReleases[i]
          IN  /\ r.arrival = r.seen
              /\ r.value = debArrivals[r.arrival].value
              /\ r.due = debArrivals[r.arrival].at + DebounceDelay
              /\ r.at >= r.due
              /\ \A j \in 1..Len(debReleases) :
                    debReleases[j].arrival = r.arrival => j = i
    /\ \A t \in debTimers : t.id = Len(debArrivals)

\* C13: without leading, a burst of arrivals releases nothing while it lasts
\* and exactly one value afterwards, the last one, armed for delay after the
\* last arrival; each arrival cancels the timer of the one before.
C13_TrailingDebounce ==
    /\ []((~debLeading) => DebounceReleasesLast)
    /\ \A n \in 1..MaxArrivals :
          (debPhase = "mounted" /\ ~debLeading /\ Len(debArrivals) = n)
          ~> \/ Len(debArrivals) > n
             \/ debPhase = "unmounted"
             \/ \E i \in 1..Len(debReleases) : debReleases[i].arrival = n

\* a burst of MaxArrivals values gave one release, of the last value
C13_Witness ==
    /\ debPhase = "mounted"
    /\ ~debLeading
    /\ Len(debArrivals) = MaxArrivals
    /\ Burst(MaxArrivals)
    /\ Len(debReleases) = 1
    /\ debReleases[1].arrival = MaxArrivals
    /\ debouncedValue = debArrivals[MaxArrivals].value

\* C14: with leading, a value that arrives after the stream was quiet for
\* delay starts a burst and is released at once.
C14_LeadingEveryBurst ==
    [][\A value \in DebValues :
         (/\ DebounceArrival(value)
          /\ debLeading
          /\ now - debArrivals[Len(debArrivals)].at >= DebounceDelay)
         => debouncedValue' = value]_vars

----------------------------------------------------------------------------
(* A component that owns one useBatchRequests, one useThrottle and one
   useDebounce, arms the timer of each once and tears each of them down *)

HooksNext ==
    \/ HooksTick
    \/ (batchAdded = 0 /\ AddToQueueCall)
    \/ BatchTimerFire
    \/ BatchUnmount
    \/ (throttleCalls < 2 /\ ThrottledFnCall)
    \/ ThrottleTimerFire
    \/ ThrottleUnmount
    \/ DebounceMountCall
    \/ DebounceTimerFire
    \/ DebounceUnmount

SpecHooks == Init /\ [][HooksNext]_vars

\* C15: after the teardown of a hook no timer of it is armed, and nothing
\* updates the debounced value, invokes the throttled callback or calls
\* processFn any more.
C15_TeardownCancels ==
    /\ [](/\ (~batchMounted) => batchTimers = {}
          /\ (~throttleMounted) => throttleTimers = {}
          /\ debPhase = "unmounted" => debTimers = {})
    /\ [][/\ (~batchMounted) => batchCalls' = batchCalls
          /\ (~throttleMounted) => invocations' = invocations
          /\ debPhase = "unmounted"
               => /\ debouncedValue' = debouncedValue
                  /\ debReleases' = debReleases]_vars

\* the three hooks were torn down with their timer armed, the time the
\* timers were due has passed and none of them ran
C15_Witness ==
    /\ ~batchMounted
    /\ batchTimeoutRef # NoTimer
    /\ queueRef # <<>>
    /\ now >= batchFirstAt + BatchDelay
    /\ ~throttleMounted
    /\ throttleTimeoutRef # NoTimer
    /\ Len(invocations) = 1
    /\ now >= invocations[1].at + ThrottleDelay
    /\ debPhase = "unmounted"
    /\ debHandler # NoTimer
    /\ debReleases = <<>>
    /\ now >= debArrivals[1].at + DebounceDelay

----------------------------------------------------------------------------
\* Properties of the durable tier's expiry, removal and namespace

\* C21: when getCache(k) reaches the durable tier and finds a record with
\* now >= expiresAt, it returns a miss and k is left in neither tier.
C21_ExpiredRecordDeleted ==
    [][\A k \in Keys :
         (/\ ~MemHit(memoryCache[k], now)
          /\ Parses(localStorage[StorageKey(k)])
          /\ now >= Parse(localStorage[StorageKey(k)]).expiresAt
          /\ cacheOp'.op = "get"
          /\ GetOk(k))
         => /\ cacheOp'.result = Null
            /\ localStorage'[StorageKey(k)] = NoRaw
            /\ memoryCache'[k] = NoEntry]_vars

\* C22: when the durable record of k does not parse, getCache(k) returns a
\* miss and the record is gone from the durable tier.
C22_CorruptRecordDeleted ==
    [][\A k \in Keys :
         (/\ ~MemHit(memoryCache[k], now)
          /\ localStorage[StorageKey(k)] = Corrupt
          /\ cacheOp'.op = "get"
          /\ GetOk(k))
         => /\ cacheOp'.result = Null
            /\ localStorage'[StorageKey(k)] = NoRaw]_vars

\* C26: every record setCache wrote has expiresAt > timestamp.
C26_ExpiryAfterStore ==
    \A k \in Keys :
        Parses(localStorage[StorageKey(k)])
        => Parse(localStorage[StorageKey(k)]).expiresAt >
             Parse(localStorage[StorageKey(k)]).timestamp

\* the durable keys of other namespaces
ForeignKeys == {s \in StorageKeys : ~StartsWith(s, CACHE_PREFIX)}

\* C23: removeCache(k) leaves k in neither tier and the other keys as they
\* were, raises nothing, changes nothing when k is already absent or was
\* just removed, and the next getCache(k) is a miss.
C23_RemoveIdempotent ==
    [][\A k \in Keys :
         /\ (cacheOp'.op = "remove" /\ RemoveCache(k, FALSE))
            => /\ ~cacheOp'.threw
               /\ memoryCache' = [memoryCache EXCEPT ![k] = NoEntry]
               /\ localStorage' =
                    [localStorage EXCEPT ![StorageKey(k)] = NoRaw]
               /\ (\/ /\ memoryCache[k] = NoEntry
                      /\ localStorage[StorageKey(k)] = NoRaw
                   \/ /\ cacheOp.op = "remove"
                      /\ cacheOp.key = k
                      /\ ~cacheOp.threw)
                  => /\ memoryCache' = memoryCache
                     /\ localStorage' = localStorage
         /\ (/\ cacheOp.op = "remove"
             /\ cacheOp.key = k
             /\ ~cacheOp.threw
             /\ cacheOp'.op = "get"
             /\ GetStep(k))
            => cacheOp'.result = Null]_vars

\* removeCache returned: its key is in neither tier, the other key is
\* still in both
C23_Witness ==
    /\ cacheOp.op = "remove"
    /\ ~cacheOp.threw
    /\ memoryCache[cacheOp.key] = NoEntry
    /\ localStorage[StorageKey(cacheOp.key)] = NoRaw
    /\ \E k \in Keys :
          /\ k # cacheOp.key
          /\ memoryCache[k] # NoEntry
          /\ localStorage[StorageKey(k)] # NoRaw

\* C24: after clearAllCache() the memory tier is empty and the durable tier
\* holds no key with the cache prefix, and the next getCache(k) is a miss for
\* every k.
C24_ClearAllEmpties ==
    [][/\ (cacheOp'.op = "clearAll" /\ ~cacheOp'.threw /\ ClearAllCacheCall)
          => /\ \A k \in Keys : memoryCache'[k] = NoEntry
             /\ \A s \in StorageKeys :
                   StartsWith(s, CACHE_PREFIX) => localStorage'[s] = NoRaw
       /\ \A k \in Keys :
             (/\ cacheOp.op = "clearAll"
              /\ ~cacheOp.threw
              /\ cacheOp'.op = "get"
              /\ GetStep(k))
             => cacheOp'.result = Null]_vars

\* clearAllCache removed the records of both keys and returned
C24_Witness ==
    /\ cacheOp.op = "clearAll"
    /\ ~cacheOp.threw
    /\ cacheOp.io = Cardinality(Keys) + 1
    /\ \A k \in Keys : memoryCache[k] = NoEntry
    /\ \A k \in Keys : localStorage[StorageKey(k)] = NoRaw

\* C25: no step of the cache adds, changes or deletes a durable key that
\* does not start with the cache prefix.
C25_ForeignKeysUntouched ==
    [][\A s \in ForeignKeys : localStorage'[s] = localStorage[s]]_vars

\* clearAllCache removed a record of the cache and the key of the other
\* namespace still has its record
C25_Witness ==
    /\ cacheOp.op = "clearAll"
    /\ cacheOp.io > 1
    /\ ForeignKeys # {}
    /\ \A s \in ForeignKeys : Parses(localStorage[s])

----------------------------------------------------------------------------
\* Properties of memoize's table

\* a call memoized(args) is made, with any outcome of the resolver and of fn
MemoStep(args) ==
    \E result \in Results, resolverThrows \in BOOLEAN, fnThrows \in BOOLEAN :
        Memoized(args, result, resolverThrows, fnThrows)

\* C27: a memoized call removes an entry only when its fingerprint is not in
\* the table and the table holds exactly maxSize entries, and then removes
\* exactly one; a call whose fingerprint is in the table leaves the key set
\* as it was.
C27_EvictionOnlyWhenFull ==
    [][\A args \in MemoArgs :
         MemoStep(args)
         => LET removed == KeysOf(memoTable) \ KeysOf(memoTable')
            IN  /\ removed # {}
                   => /\ ~Has(memoTable, Resolver(args))
                      /\ Len(memoTable) = MaxSize
                      /\ Cardinality(removed) = 1
                /\ Has(memoTable, Resolver(args))
                   => KeysOf(memoTable') = KeysOf(memoTable)]_vars

\* a call memoized(args) whose resolver returned; whether fn raised is read
\* from the outcome
MemoReturnStep(args) ==
    \E result \in Results : Memoized(args, result, FALSE, memoOp'.threw)

\* the value the table holds for key, Null when it holds none
ValueOf(table, key) ==
    IF Has(table, key) THEN table[IndexOf(table, key)].value ELSE Null

\* C28: a call whose fingerprint is in the table returns the value the table
\* holds without running the wrapped function; a call whose fingerprint is
\* not in the table runs it once, returns its result and stores it; no call
\* changes the value stored for a fingerprint that stays in the table.  So
\* the table always holds, and a hit returns, the result of the last
\* execution for that fingerprint.
C28_HitReturnsStoredResult ==
    [][\A args \in MemoArgs :
         (/\ memoOp'.op = "call"
          /\ memoOp'.key = Resolver(args)
          /\ MemoReturnStep(args))
         => /\ Has(memoTable, Resolver(args))
               => /\ ~memoOp'.computed
                  /\ ~memoOp'.threw
                  /\ memoOp'.result = ValueOf(memoTable, Resolver(args))
            /\ (~Has(memoTable, Resolver(args)) /\ ~memoOp'.threw)
               => /\ memoOp'.computed
                  /\ ValueOf(memoTable', Resolver(args)) = memoOp'.result
            /\ \A k \in KeysOf(memoTable) \cap KeysOf(memoTable') :
                  ValueOf(memoTable', k) = ValueOf(memoTable, k)]_vars

\* a hit on the second entry of the table, whose value differs from the
\* first entry's
C28_Witness ==
    /\ memoOp.op = "call"
    /\ ~memoOp.computed
    /\ ~memoOp.threw
    /\ Len(memoTable) = 2
    /\ memoTable[2].key = memoOp.key
    /\ memoTable[2].value = memoOp.result
    /\ memoTable[1].value # memoOp.result
    /\ memoTable[2].lastAccessed > memoTable[1].lastAccessed

\* C29: clearCache() empties the table, the call that follows it runs the
\* wrapped function and stores its result, and with clearCache among the
\* calls the table never holds more than maxSize entries.
C29_ClearThenBounded ==
    [][/\ ClearCache => memoTable' = <<>>
       /\ \A args \in MemoArgs :
             (/\ memoOp.op = "clear"
              /\ memoOp'.key = Resolver(args)
              /\ ~memoOp'.threw
              /\ MemoReturnStep(args))
             => /\ memoOp'.computed
                /\ ValueOf(memoTable', Resolver(args)) = memoOp'.result
       /\ Len(memoTable') <= MaxSize]_vars

----------------------------------------------------------------------------
(* cacheUtils: debounce(func, wait) *)

\* debounced(args); the calls are numbered, the number stands for the
\* arguments: if (timeout) clearTimeout(timeout); timeout = setTimeout(...)
Debounced(args) ==
    /\ args = debouncedCalls + 1
    /\ args <= MaxDebouncedCalls
    /\ now + Wait <= StartTime + MaxDebounceNow
    /\ debouncedCalls' = args
    /\ fnTimers' = ClearTimeout(fnTimers, timeout) \cup
                     {[id |-> args, due |-> now + Wait, args |-> args]}
    /\ timeout' = args
    /\ UNCHANGED <<now, notFnDebounce, funcRuns>>

DebouncedCall == \E args \in 1..MaxDebouncedCalls : Debounced(args)

\* the timer callback: timeout = null; func.apply(context, args)
FuncTimerFire ==
    \E t \in fnTimers :
        /\ now >= t.due
        /\ fnTimers' = fnTimers \ {t}
        /\ timeout' = NoTimer
        /\ funcRuns' = Append(funcRuns, [at |-> now, args |-> t.args])
        /\ UNCHANGED <<now, notFnDebounce, debouncedCalls>>

\* debounced.cancel(): if (timeout) { clearTimeout(timeout); timeout = null }
DebouncedCancel ==
    /\ timeout # NoTimer
    /\ fnTimers' = ClearTimeout(fnTimers, timeout)
    /\ timeout' = NoTimer
    /\ UNCHANGED <<now, notFnDebounce, debouncedCalls, funcRuns>>

----------------------------------------------------------------------------
(* One batch collector, one throttle and one debounced function used side
   by side, each called a few times, with every interleaving of their calls
   and timers *)

TimersNext ==
    \/ HooksTick
    \/ (batchAdded < 3 /\ AddToQueueCall)
    \/ BatchTimerFire
    \/ ProcessBatchCall
    \/ (throttleCalls < 3 /\ ThrottledFnCall)
    \/ ThrottleTimerFire
    \/ (debouncedCalls < 2 /\ DebouncedCall)
    \/ FuncTimerFire
    \/ DebouncedCancel

SpecTimers == Init /\ [][TimersNext]_vars

\* C30: an instance has at most one timer armed at any time, the one its
\* handle names.
C30_OneTimerPerInstance ==
    /\ Cardinality(batchTimers) <= 1
    /\ \A t \in batchTimers : t.id = batchTimeoutRef
    /\ Cardinality(throttleTimers) <= 1
    /\ \A t \in throttleTimers : t.id = throttleTimeoutRef
    /\ Cardinality(fnTimers) <= 1
    /\ \A t \in fnTimers : t.id = timeout

\* each instance has armed a timer after an earlier timer of it fired or
\* was cancelled
C30_Witness ==
    /\ \E t \in batchTimers : t.id > 1
    /\ \E t \in throttleTimers : t.id = 3
    /\ Len(invocations) = 1
    /\ \E t \in fnTimers : t.id > 1
    /\ funcRuns = <<>>

----------------------------------------------------------------------------
\* Properties of useBatchRequests' processFn calls

C32_RejectionAbsorbed == ~batchUnhandled

\* C37: processing is true exactly while a processFn call is in flight.
C37_ProcessingTracksInFlight == processing <=> (InFlight # {})

\* C33: a memoized call in which the resolver or the wrapped function raises
\* reports the exception to the caller and leaves the table as it was: no
\* entry inserted, none evicted, no lastAccessed changed.
C33_ThrowLeavesTable ==
    [][\A args \in MemoArgs :
          \A resolverThrows \in BOOLEAN, fnThrows \in BOOLEAN :
             (/\ memoOp'.op = "call"
              /\ resolverThrows \/ (fnThrows /\ ~Has(memoTable, Resolver(args)))
              /\ \E result \in Results :
                    Memoized(args, result, resolverThrows, fnThrows))
             => (memoOp'.threw /\ memoTable' = memoTable)]_vars

C33_Witness ==
    /\ memoOp.op = "call" /\ memoOp.threw /\ memoOp.computed
    /\ Len(memoTable) = MaxSize /\ ~Has(memoTable, memoOp.key)

----------------------------------------------------------------------------
(* Properties of useThrottle's immediate invocations *)

\* C36: once a call has been invoked immediately, no trailing invocation
\* carrying the arguments of an earlier call follows it, also when the
\* trailing timer fires later than its due time.
C36_NoStaleTrailing ==
    \A i, j \in 1..Len(invocations) :
        (/\ i < j
         /\ invocations[i].kind = "immediate"
         /\ invocations[j].kind = "trailing")
        => invocations[j].args > invocations[i].args

----------------------------------------------------------------------------
(* locationService: LocationService.getCurrentPosition and the hook
   useUserLocation.  A position is an opaque value; the sensor's readings
   are the values of Values. *)

LOCATION_CACHE_KEY == "a"       \* 'user_location', as one of the model's keys
LOCATION_CACHE_TIME == 10 * 60 * 1000
DEFAULT_LOCATION == "default"   \* the Bangkok coordinates

Pending == [state |-> "pending", value |-> Null]
Resolved(value) == [state |-> "resolved", value |-> value]
Rejected == [state |-> "rejected", value |-> Null]

\* navigator.geolocation is the same during the page's life: the first read
\* finds it present or absent, the later ones find what the first found
Navigator(geo) == IF geo = "unread" THEN {"present", "absent"} ELSE {geo}

OnError_Rejects == Rejected

\* the error callback of the foreground request: resolve(DEFAULT_LOCATION)
OnError == Resolved(DEFAULT_LOCATION)

\* the promise when the executor of getCurrentPosition returns
Executor(cachedLocation, geo) ==
    IF cachedLocation # Null THEN Resolved(cachedLocation)
    ELSE IF geo = "present" THEN Pending
    ELSE Resolved(DEFAULT_LOCATION)

\* the sensor request the executor makes: updateLocationInBackground's when a
\* position is cached, the foreground one otherwise, none without a sensor
Requested(call, cachedLocation, geo) ==
    IF geo = "present"
      THEN {[call |-> call, background |-> cachedLocation # Null]}
      ELSE {}

NoEnd == [ended |-> FALSE, mounted |-> TRUE, location |-> Null,
          loading |-> TRUE, error |-> Null]

\* updateLocation() up to its await: setLoading(true) and the executor of
\* LocationService.getCurrentPosition()
UpdateLocation(getItemThrows, removeItemThrows, geo) ==
    /\ isMountedRef
    /\ Len(locCalls) < MaxLocCalls
    /\ geo \in Navigator(geolocation)
    /\ GetCache(LOCATION_CACHE_KEY, getItemThrows, removeItemThrows)
    /\ geolocation' = geo
    /\ loading' = TRUE
    /\ LET cachedLocation == cacheOp'.result
       IN  /\ locCalls' =
                Append(locCalls,
                       [phase |-> "awaiting",
                        promise |-> Executor(cachedLocation, geo),
                        cached |-> cachedLocation,
                        sensor |-> IF cachedLocation # Null THEN "unused"
                                   ELSE IF geo = "present" THEN "asked"
                                   ELSE "unsupported",
                        end |-> NoEnd])
           /\ sensorRequests' =
                sensorRequests \cup
                  Requested(Len(locCalls) + 1, cachedLocation, geo)
    /\ UNCHANGED <<location, error, isMountedRef, notCacheOrLocation>>

UpdateLocationCall ==
    \E getItemThrows \in BOOLEAN, removeItemThrows \in BOOLEAN,
       geo \in {"present", "absent"} :
        UpdateLocation(getItemThrows, removeItemThrows, geo)

\* the success callback of a sensor request: setCache, and resolve for the
\* foreground request
SensorSuccess(req, reading, setItemThrows) ==
    /\ req \in sensorRequests
    /\ sensorRequests' = sensorRequests \ {req}
    /\ SetCache(LOCATION_CACHE_KEY, reading, LOCATION_CACHE_TIME, TRUE,
                setItemThrows)
    /\ locCalls' =
         IF req.background THEN locCalls
         ELSE [locCalls EXCEPT ![req.call].promise = Resolved(reading),
                               ![req.call].sensor = "reading"]
    /\ UNCHANGED <<geolocation, location, loading, error, isMountedRef,
                   notCacheOrLocation>>

\* the error callback of a sensor request (permission denied, position
\* unavailable, timeout): the background request only logs
SensorError(req) ==
    /\ req \in sensorRequests
    /\ sensorRequests' = sensorRequests \ {req}
    /\ locCalls' =
         IF req.background THEN locCalls
         ELSE [locCalls EXCEPT ![req.call].promise = OnError,
                               ![req.call].sensor = "error"]
    /\ UNCHANGED <<now, cacheVars, geolocation, location, loading, error,
                   isMountedRef, notCacheOrLocation>>

\* the foreground request has timeout: 5000 and is answered at last; the
\* background request has no timeout
ForegroundAnswer ==
    \E req \in sensorRequests :
        /\ ~req.background
        /\ \/ \E reading \in Values, setItemThrows \in BOOLEAN :
                 SensorSuccess(req, reading, setItemThrows)
           \/ SensorError(req)

BackgroundAnswer ==
    \E req \in sensorRequests :
        /\ req.background
        /\ \/ \E reading \in Values, setItemThrows \in BOOLEAN :
                 SensorSuccess(req, reading, setItemThrows)
           \/ SensorError(req)

\* updateLocation() after its await: the try, catch and finally blocks
UpdateLocationResume(call) ==
    LET promise == locCalls[call].promise
        mounted == isMountedRef
    IN  /\ locCalls[call].phase = "awaiting"
        /\ promise.state # "pending"
        /\ location' = IF ~mounted THEN location
                       ELSE IF promise.state = "resolved" THEN promise.value
                       ELSE DEFAULT_LOCATION
        /\ error' = IF ~mounted THEN error
                    ELSE IF promise.state = "resolved" THEN Null
                    ELSE "Unable to retrieve your location"
        /\ loading' = IF mounted THEN FALSE ELSE loading
        /\ locCalls' =
             [locCalls EXCEPT
                ![call].phase = "done",
                ![call].end = [ended |-> TRUE, mounted |-> mounted,
                               location |-> location', loading |-> loading',
                               error |-> error']]
        /\ UNCHANGED <<now, cacheVars, geolocation, sensorRequests,
                       isMountedRef, notCacheOrLocation>>

UpdateLocationResumeStep ==
    \E call \in 1..Len(locCalls) : UpdateLocationResume(call)

\* the cleanup of the hook's effect
LocationUnmount ==
    /\ isMountedRef
    /\ isMountedRef' = FALSE
    /\ UNCHANGED <<now, cacheVars, geolocation, sensorRequests, locCalls,
                   location, loading, error, notCacheOrLocation>>

LocationNext ==
    \/ UpdateLocationCall
    \/ ForegroundAnswer
    \/ BackgroundAnswer
    \/ UpdateLocationResumeStep
    \/ LocationUnmount

SpecLocation == Init /\ [][LocationNext]_vars

FairSpecLocation ==
    /\ SpecLocation
    /\ WF_vars(ForegroundAnswer)
    /\ WF_vars(UpdateLocationResumeStep)

----------------------------------------------------------------------------
(* Properties of the location service *)

LocCallIds == 1..Len(locCalls)

\* C34 as stated: getCurrentPosition resolves and never rejects, and every
\* updateLocation call ends with loading = false.
C34_EndsNotLoading ==
    \A c \in LocCallIds :
        /\ locCalls[c].promise.state # "rejected"
        /\ locCalls[c].end.ended => ~locCalls[c].end.loading

\* C34, amended: the promise of getCurrentPosition is never rejected; it is
\* resolved with the cached position when one is cached, otherwise with the
\* sensor's reading, and with the default coordinate when the sensor reports
\* an error or is absent; every call's promise is resolved at last and the
\* call ends; a call that ends while the component is mounted ends with
\* loading = false, one that ends after the unmount leaves loading as it is.
C34_PositionResolves ==
    /\ [](\A c \in LocCallIds :
            LET call == locCalls[c]
            IN  /\ call.promise.state # "rejected"
                /\ call.promise.state = "resolved" =>
                      IF call.cached # Null
                        THEN call.promise.value = call.cached
                      ELSE IF call.sensor = "reading"
                        THEN call.promise.value \in Values
                      ELSE /\ call.sensor \in {"error", "unsupported"}
                           /\ call.promise.value = DEFAULT_LOCATION
                /\ (call.end.ended /\ call.end.mounted) => ~call.end.loading)
    /\ [][\A c \in LocCallIds :
             (UpdateLocationResume(c) /\ ~isMountedRef) => loading' = loading]_vars
    /\ \A c \in 1..MaxLocCalls :
          (Len(locCalls) >= c) ~>
             (/\ Len(locCalls) >= c
              /\ locCalls[c].promise.state = "resolved"
              /\ locCalls[c].end.ended)

C34_Witness ==
    \E c \in LocCallIds :
        /\ locCalls[c].sensor = "error"
        /\ locCalls[c].end.ended /\ locCalls[c].end.mounted
        /\ locCalls[c].end.location = DEFAULT_LOCATION
        /\ ~loading
        /\ \E d \in LocCallIds :
              locCalls[d].sensor = "reading" /\ locCalls[d].end.ended

\* C35: an updateLocation call whose sensor request failed or timed out ends
\* with location = the default coordinate and with the error flag set.
C35_SensorFailureFlagged ==
    \A c \in LocCallIds :
        (/\ locCalls[c].sensor = "error"
         /\ locCalls[c].end.ended /\ locCalls[c].end.mounted)
        => /\ locCalls[c].end.location = DEFAULT_LOCATION
           /\ locCalls[c].end.error # Null

----------------------------------------------------------------------------
(* cacheUtils: useLocalStorageCache(key, initialValue) with the default
   options.  The hook's debounced writer is the debounce function above:
   timeout and fnTimers are its closure variable and its timers, a call's
   arguments are the number of the render that made the call. *)

LscKey == "b"               \* the key argument
InitialValue == "v1"        \* the initialValue argument

\* useState(() => cached !== null ? cached : initialValue)
InitialState(cached) == IF cached # Null THEN cached ELSE InitialValue

\* the effect of a render with a new value:
\* debouncedSetCache(key, valueRef.current, options)
LscEffect(newValue) ==
    LET n == Len(lscUpdates) + 1
    IN  /\ lscUpdates' = Append(lscUpdates, [at |-> now, value |-> newValue])
        /\ fnTimers' = ClearTimeout(fnTimers, timeout) \cup
                         {[id |-> n, due |-> now + Wait, args |-> n]}
        /\ timeout' = n
        /\ debouncedCalls' = n
        /\ UNCHANGED funcRuns

\* the first render and its effects
LscMount(getItemThrows, removeItemThrows) ==
    /\ lscPhase = "init"
    /\ lscPhase' = "mounted"
    /\ GetCache(LscKey, getItemThrows, removeItemThrows)
    /\ lscValue' = InitialState(cacheOp'.result)
    /\ LscEffect(lscValue')
    /\ UNCHANGED <<lscWrites, notStorageHook>>

LscMountCall ==
    \E getItemThrows \in BOOLEAN, removeItemThrows \in BOOLEAN :
        LscMount(getItemThrows, removeItemThrows)

\* updateValue(newValue) with a value that differs from the state, the
\* render it causes and the render's effect
UpdateValue(newValue) ==
    /\ lscPhase = "mounted"
    /\ newValue # lscValue
    /\ Len(lscUpdates) < MaxArrivals
    /\ now + Wait <= StartTime + MaxDebounceNow
    /\ lscValue' = newValue
    /\ LscEffect(newValue)
    /\ UNCHANGED <<now, cacheVars, lscPhase, lscWrites, notStorageHook>>

UpdateValueCall == \E newValue \in Values : UpdateValue(newValue)

\* the timer of the debounced writer: timeout = null;
\* setCache(key, value, options)
LscTimerFire ==
    \E t \in fnTimers, setItemThrows \in BOOLEAN :
        /\ lscPhase # "init"
        /\ now >= t.due
        /\ fnTimers' = fnTimers \ {t}
        /\ timeout' = NoTimer
        /\ funcRuns' = Append(funcRuns, [at |-> now, args |-> t.args])
        /\ SetCache(LscKey, lscUpdates[t.args].value, 0, TRUE, setItemThrows)
        /\ lscWrites' =
             Append(lscWrites,
                    [at |-> now, update |-> t.args, seen |-> Len(lscUpdates),
                     value |-> lscUpdates[t.args].value, due |-> t.due])
        /\ UNCHANGED <<debouncedCalls, lscPhase, lscValue, lscUpdates,
                       notStorageHook>>

\* the cleanup of the last effect: debouncedSetCache.cancel()
LscUnmount ==
    /\ lscPhase = "mounted"
    /\ lscPhase' = "unmounted"
    /\ fnTimers' = ClearTimeout(fnTimers, timeout)
    /\ timeout' = NoTimer
    /\ UNCHANGED <<now, cacheVars, debouncedCalls, funcRuns, lscValue,
                   lscUpdates, lscWrites, notStorageHook>>

StorageHookNext ==
    \/ DebounceTick
    \/ LscMountCall
    \/ UpdateValueCall
    \/ LscTimerFire
    \/ LscUnmount

SpecStorageHook == Init /\ [][StorageHookNext]_vars

\* either tier holds value under key
CacheHolds(key, value) ==
    \/ memoryCache[key] # NoEntry /\ memoryCache[key].value = value
    \/ /\ localStorage[StorageKey(key)].kind = "json"
       /\ localStorage[StorageKey(key)].value = value

\* C38: every cache write of the hook carries the value of the last update,
\* was armed for the wait after that update and is not early, and no update
\* is written twice; once the last update of a mounted hook has been written,
\* the cache holds the state value.
C38_DebouncedWrite ==
    /\ \A i \in 1..Len(lscWrites) :
          LET w == lscWrites[i]
          IN  /\ w.update = w.seen
              /\ w.value = lscUpdates[w.update].value
              /\ w.due = lscUpdates[w.update].at + Wait
              /\ w.at >= w.due
              /\ \A j \in 1..Len(lscWrites) :
                    lscWrites[j].update = w.update => j = i
    /\ (/\ lscPhase = "mounted"
        /\ \E i \in 1..Len(lscWrites) :
              lscWrites[i].update = Len(lscUpdates))
       => CacheHolds(LscKey, lscValue)

----------------------------------------------------------------------------
(* cartService: useCart.  The cart is the state useLocalStorageCache hands
   out; every operation is a functional update setCart(prevCart => ...). *)

\* the menu items the customer can add: two of one vendor, one of another
MenuItems == {[id |-> "m1", vendor_id |-> "V1"],
              [id |-> "m2", vendor_id |-> "V1"],
              [id |-> "m3", vendor_id |-> "V2"]}
OptionsArgs == {Null, "large"}      \* the options argument, Null = omitted
VendorNameArgs == {"", "Shop"}      \* the vendorName argument, "" = omitted
QuantityArgs == {0, 2}              \* the quantity of updateCartItem

DifferentVendor_Never(prevCart, menuItem) == FALSE

\* prevCart.vendorId && prevCart.vendorId !== menuItem.vendor_id
DifferentVendor(prevCart, menuItem) ==
    /\ prevCart.vendorId # Null /\ prevCart.vendorId # ""
    /\ prevCart.vendorId # menuItem.vendor_id

\* the new entry: id is `${menuItem.id}_${Date.now()}`
NewCartItem(menuItem, quantity, options, specialInstructions) ==
    [id |-> <<menuItem.id, now>>, menuItem |-> menuItem,
     quantity |-> quantity, options |-> options,
     specialInstructions |-> specialInstructions]

\* prevCart.items.findIndex(...): the first entry of the same menu item with
\* the same options and instructions, 0 when there is none
ExistingItemIndex(items, menuItem, options, specialInstructions) ==
    LET found == {i \in 1..Len(items) :
                    /\ items[i].menuItem.id = menuItem.id
                    /\ items[i].options = options
                    /\ items[i].specialInstructions = specialInstructions}
    IN  IF found = {} THEN 0
        ELSE CHOOSE i \in found : \A j \in found : i <= j

\* vendorName || fallback
NameOr(vendorName, fallback) == IF vendorName = "" THEN fallback ELSE vendorName

\* the function addToCart passes to setCart
CartAfterAdd(prevCart, menuItem, quantity, options, instructions, vendorName) ==
    LET specialInstructions == instructions
        index == ExistingItemIndex(prevCart.items, menuItem, options,
                                   specialInstructions)
    IN  IF DifferentVendor(prevCart, menuItem)
          THEN [items |-> <<NewCartItem(menuItem, quantity, options,
                                        specialInstructions)>>,
                vendorId |-> menuItem.vendor_id,
                vendorName |-> NameOr(vendorName, Null)]
        ELSE [items |->
                IF index > 0
                  THEN [prevCart.items EXCEPT
                          ![index].quantity = @ + quantity]
                  ELSE Append(prevCart.items,
                              NewCartItem(menuItem, quantity, options,
                                          specialInstructions)),
              vendorId |-> menuItem.vendor_id,
              vendorName |-> NameOr(vendorName, prevCart.vendorName)]

\* prevCart.items.filter((item) => item.id !== itemId)
WithoutItem(items, itemId) == SelectSeq(items, LAMBDA item : item.id # itemId)

\* the function updateCartItem passes to setCart
CartAfterUpdate(prevCart, itemId, quantity) ==
    IF quantity <= 0
      THEN [prevCart EXCEPT !.items = WithoutItem(prevCart.items, itemId)]
      ELSE [prevCart EXCEPT
              !.items = [i \in 1..Len(prevCart.items) |->
                           IF prevCart.items[i].id = itemId
                             THEN [prevCart.items[i] EXCEPT
                                     !.quantity = quantity]
                             ELSE prevCart.items[i]]]

\* the function removeCartItem passes to setCart
CartAfterRemove(prevCart, itemId) ==
    [prevCart EXCEPT !.items = WithoutItem(prevCart.items, itemId)]

CartOp(name, menuItem) == [op |-> name, menuItem |-> menuItem, prevCart |-> cart]

\* one more operation on the cart
CartStep(name, menuItem, newCart) ==
    /\ cartOps < MaxCartOps
    /\ cartOps' = cartOps + 1
    /\ cart' = newCart
    /\ cartOp' = CartOp(name, menuItem)
    /\ UNCHANGED <<now, notCart>>

AddToCart ==
    \E menuItem \in MenuItems, options \in OptionsArgs,
       vendorName \in VendorNameArgs :
        CartStep("add", menuItem,
                 CartAfterAdd(cart, menuItem, 1, options, Null, vendorName))

ItemIds == {cart.items[i].id : i \in 1..Len(cart.items)}

UpdateCartItem ==
    \E itemId \in ItemIds, quantity \in QuantityArgs :
        CartStep("update", NoMenuItem, CartAfterUpdate(cart, itemId, quantity))

RemoveCartItem ==
    \E itemId \in ItemIds :
        CartStep("remove", NoMenuItem, CartAfterRemove(cart, itemId))

ClearCart == CartStep("clear", NoMenuItem, EMPTY_CART)

CartNext ==
    \/ Tick
    \/ AddToCart
    \/ UpdateCartItem
    \/ RemoveCartItem
    \/ ClearCart

SpecCart == Init /\ [][CartNext]_vars

\* C39: every item of the cart is of the vendor in cart.vendorId, and an
\* addToCart of an item of another vendor than the cart's leaves a cart with
\* that single item and its vendor.
C39_OneVendor ==
    /\ \A i \in 1..Len(cart.items) :
          cart.items[i].menuItem.vendor_id = cart.vendorId
    /\ (/\ cartOp.op = "add"
        /\ cartOp.prevCart.vendorId # Null
        /\ cartOp.prevCart.vendorId # cartOp.menuItem.vendor_id)
       => /\ Len(cart.items) = 1
          /\ cart.items[1].menuItem = cartOp.menuItem
          /\ cart.vendorId = cartOp.menuItem.vendor_id

\* an item of V2 was added to a cart with two entries of V1
C39_Witness ==
    /\ cartOp.op = "add"
    /\ Len(cartOp.prevCart.items) = 2
    /\ cartOp.prevCart.vendorId = "V1"
    /\ cart.vendorId = "V2"
    /\ Len(cart.items) = 1

----------------------------------------------------------------------------
(* api.ts: useCartStore.  An entry of the store's cart carries the menu
   item's id; vendor_id is the vendor of that menu item, kept with the entry
   to tell whose it is.  The name, price and image copied from the menu item
   are left out. *)

\* the `cart` addToCart goes on with after the vendor check: the one it
\* read with get() at its start, also after set() has cleared the store
CartInHand(cartRead, confirmClear) == cartRead

\* cart.vendorId && cart.vendorId !== menuItem.vendor_id
OtherVendor(cartRead, menuItem) ==
    /\ cartRead.vendorId # Null /\ cartRead.vendorId # ""
    /\ cartRead.vendorId # menuItem.vendor_id

\* cart.items.findIndex(item => item.menuItemId === menuItem.id), 0 for -1
StoreItemIndex(items, menuItem) ==
    LET found == {i \in 1..Len(items) : items[i].menuItemId = menuItem.id}
    IN  IF found = {} THEN 0
        ELSE CHOOSE i \in found : \A j \in found : i <= j

\* the cart addToCart sets last
StoreAfterAdd(cartRead, menuItem, quantity, confirmClear) ==
    LET inHand == CartInHand(cartRead, confirmClear)
        index == StoreItemIndex(inHand.items, menuItem)
    IN  IF index > 0
          THEN [inHand EXCEPT !.items[index].quantity = @ + quantity,
                              !.vendorId = menuItem.vendor_id]
          ELSE [items |-> Append(inHand.items,
                                 [id |-> now, menuItemId |-> menuItem.id,
                                  quantity |-> quantity,
                                  vendor_id |-> menuItem.vendor_id]),
                vendorId |-> menuItem.vendor_id,
                vendorName |-> IF inHand.vendorName = Null
                                 THEN "Restaurant" ELSE inHand.vendorName]

StoreOp(name, menuItem, confirmClear) ==
    [op |-> name, menuItem |-> menuItem, prevCart |-> storeCart,
     confirmClear |-> confirmClear]

StoreStep(name, menuItem, confirmClear, newCart) ==
    /\ storeOps < MaxCartOps
    /\ storeOps' = storeOps + 1
    /\ storeCart' = newCart
    /\ storeOp' = StoreOp(name, menuItem, confirmClear)
    /\ UNCHANGED <<now, notStore>>

\* addToCart(menuItem, quantity); confirmClear: the answer to window.confirm
\* when the cart holds another vendor's items
StoreAddToCart(menuItem, quantity, confirmClear) ==
    IF OtherVendor(storeCart, menuItem) /\ ~confirmClear
      THEN StoreStep("add", menuItem, confirmClear, storeCart)
      ELSE StoreStep("add", menuItem, confirmClear,
                     StoreAfterAdd(storeCart, menuItem, quantity,
                                   confirmClear))

StoreAddToCartCall ==
    \E menuItem \in MenuItems, confirmClear \in BOOLEAN :
        StoreAddToCart(menuItem, 1, confirmClear)

\* removeFromCart(itemId): an emptied cart loses its vendor
StoreAfterRemove(cartRead, itemId) ==
    LET updatedItems == WithoutItem(cartRead.items, itemId)
    IN  IF Len(updatedItems) > 0
          THEN [cartRead EXCEPT !.items = updatedItems]
          ELSE EMPTY_STORE_CART

RemoveFromCart(itemId) ==
    StoreStep("remove", NoMenuItem, FALSE, StoreAfterRemove(storeCart, itemId))

\* updateQuantity(itemId, quantity)
UpdateQuantity(itemId, quantity) ==
    StoreStep("update", NoMenuItem, FALSE,
              IF quantity <= 0
                THEN StoreAfterRemove(storeCart, itemId)
                ELSE [storeCart EXCEPT
                        !.items = [i \in 1..Len(storeCart.items) |->
                                     IF storeCart.items[i].id = itemId
                                       THEN [storeCart.items[i] EXCEPT
                                               !.quantity = quantity]
                                       ELSE storeCart.items[i]]])

StoreItemIds == {storeCart.items[i].id : i \in 1..Len(storeCart.items)}

RemoveFromCartCall == \E itemId \in StoreItemIds : RemoveFromCart(itemId)

UpdateQuantityCall ==
    \E itemId \in StoreItemIds, quantity \in QuantityArgs :
        UpdateQuantity(itemId, quantity)

StoreClearCart == StoreStep("clear", NoMenuItem, FALSE, EMPTY_STORE_CART)

StoreNext ==
    \/ Tick
    \/ StoreAddToCartCall
    \/ RemoveFromCartCall
    \/ UpdateQuantityCall
    \/ StoreClearCart

SpecStore == Init /\ [][StoreNext]_vars

\* C40: after an addToCart to a cart of another vendor that the user
\* confirmed, the cart holds the added item only, with the new vendor's id.
C40_ConfirmedClear ==
    (/\ storeOp.op = "add"
     /\ storeOp.confirmClear
     /\ storeOp.prevCart.vendorId # Null
     /\ storeOp.prevCart.vendorId # storeOp.menuItem.vendor_id)
    => /\ Len(storeCart.items) = 1
       /\ storeCart.items[1].menuItemId = storeOp.menuItem.id
       /\ storeCart.vendorId = storeOp.menuItem.vendor_id
       /\ \A i \in 1..Len(storeCart.items) :
             storeCart.items[i].vendor_id # storeOp.prevCart.vendorId

====
